---------------------------- MODULE Spec2Model ----------------------------
(***************************************************************************)
(* Model of the translation-table maintenance scripts of deliaxe-paint:    *)
(*   scripts/fix_translations.py      (TranslationFixer)                   *)
(*   scripts/translate_csv.py         (extract / apply)                    *)
(*   scripts/mark_missing_translations.py                                  *)
(*                                                                         *)
(* A cell text is a sequence of one-character strings, so that strip(),    *)
(* count(), startswith(), the regular expressions and lower() are computed *)
(* on the characters as Python computes them.  A CSV row is a function     *)
(* from field names to cell texts (the dict csv.DictReader yields).        *)
(***************************************************************************)
EXTENDS Integers, Sequences, FiniteSets, TLC

(***************************************************************************)
(* Texts                                                                   *)
(***************************************************************************)

\* Python's None, as DictReader stores it for the missing cells of a short
\* row.  It is a one-token sequence whose token is no character of any text.
None == <<"<None>">>

\* The empty str ''.
Empty == <<>>

\* Python truthiness of a str-or-None value: `not v` is true for None and ''.
Falsy(v) == v = None \/ v = Empty

\* `v or ''`
OrEmpty(v) == IF Falsy(v) THEN Empty ELSE v

IsSpace(c) == c = " "

Min(S) == CHOOSE m \in S : \A n \in S : m <= n

RECURSIVE LStrip(_)
LStrip(s) == IF s # <<>> /\ IsSpace(Head(s)) THEN LStrip(Tail(s)) ELSE s

RECURSIVE RStrip(_)
RStrip(s) ==
    IF s # <<>> /\ IsSpace(s[Len(s)]) THEN RStrip(SubSeq(s, 1, Len(s) - 1)) ELSE s

\* str.strip()
Strip(s) == RStrip(LStrip(s))

\* str.count(c) for a one-character c
Count(s, c) == Cardinality({i \in 1..Len(s) : s[i] = c})

\* str.startswith(p)
StartsWith(s, p) == Len(s) >= Len(p) /\ SubSeq(s, 1, Len(p)) = p

\* `sub in s`
Contains(s, sub) ==
    \E i \in 1..(Len(s) - Len(sub) + 1) : SubSeq(s, i, i + Len(sub) - 1) = sub

\* str.lower(), on the letters the modelled texts use in upper case.
UpperAlpha == <<"A", "B", "C", "D", "E", "F", "G", "H", "I", "J", "K", "L", "M",
               "N", "O", "P", "Q", "R", "S", "T", "U", "V", "W", "X", "Y", "Z">>
LowerAlpha == <<"a", "b", "c", "d", "e", "f", "g", "h", "i", "j", "k", "l", "m",
               "n", "o", "p", "q", "r", "s", "t", "u", "v", "w", "x", "y", "z">>

LowerChar(c) ==
    IF \E i \in 1..Len(UpperAlpha) : UpperAlpha[i] = c
    THEN LowerAlpha[CHOOSE i \in 1..Len(UpperAlpha) : UpperAlpha[i] = c]
    ELSE c

Lower(s) == [i \in 1..Len(s) |-> LowerChar(s[i])]

IsDigit(c) == c \in {"0", "1", "2", "3", "4", "5", "6", "7", "8", "9"}

\* str.replace(pat, '') : every non-overlapping occurrence, left to right.
RECURSIVE RemoveAll(_, _)
RemoveAll(s, pat) ==
    IF s = <<>> THEN <<>>
    ELSE IF StartsWith(s, pat) THEN RemoveAll(SubSeq(s, Len(pat) + 1, Len(s)), pat)
    ELSE <<Head(s)>> \o RemoveAll(Tail(s), pat)

\* The sentinel literals of the scripts.
T_1 == <<"1">>
T_MT == <<"M", "T", ":">>
T_TODO == <<"T", "O", "D", "O">>
T_FIXME == <<"F", "I", "X", "M", "E">>

(***************************************************************************)
(* Rows: dicts of csv.DictReader                                           *)
(***************************************************************************)

\* The key under which DictReader files the cells beyond the header
\* (restkey=None); a row that has it carries a field outside the schema.
RestKey == "<rest>"

\* dict.get(c) : None when the dict has no such key.
Get(r, c) == IF c \in DOMAIN r THEN r[c] ELSE None

\* dict.get(c, d)
GetD(r, c, d) == IF c \in DOMAIN r THEN r[c] ELSE d

\* r[c] = v on a dict
Put(r, c, v) == [k \in (DOMAIN r) \cup {c} |-> IF k = c THEN v ELSE r[k]]

\* The elements of a sequence / the concatenation of a sequence of sequences.
Range(s) == {s[i] : i \in 1..Len(s)}

RECURSIVE Flatten(_)
Flatten(ss) == IF ss = <<>> THEN <<>> ELSE Head(ss) \o Flatten(Tail(ss))

(***************************************************************************)
(* fix_translations.py : English verification                              *)
(***************************************************************************)

\* TranslationFixer._is_placeholder_value
_is_placeholder_value(v) ==
    IF v = None THEN TRUE
    ELSE LET s == Strip(v) IN
         \/ s = Empty
         \/ s \in {T_1, T_MT, T_TODO, T_FIXME}
         \/ StartsWith(s, T_MT)

\* TranslationFixer._has_balanced_placeholders
_has_balanced_placeholders(text) == Count(text, "{") = Count(text, "}")

\* re.findall(r"\[([^\]]+)\]", en): the captured groups, leftmost first.  A
\* match starts at a "[", takes one or more characters other than "]" and
\* ends at the next "]"; where that fails the scan moves one character on.
RECURSIVE HotkeyMatches(_)
HotkeyMatches(s) ==
    IF s = <<>> THEN <<>>
    ELSE IF Head(s) # "[" THEN HotkeyMatches(Tail(s))
    ELSE LET rest == Tail(s)
             closes == {j \in 1..Len(rest) : rest[j] = "]"}
         IN IF closes = {} THEN HotkeyMatches(rest)
            ELSE LET j == Min(closes) IN
                 IF j = 1 THEN HotkeyMatches(rest)
                 ELSE <<SubSeq(rest, 1, j - 1)>>
                          \o HotkeyMatches(SubSeq(rest, j + 1, Len(rest)))

Issue(key, type, value) == [key |-> key, type |-> type, value |-> value]

\* The body of verify_english_texts' loop for one row: the issues it appends.
RowIssues(row) ==
    LET key == GetD(row, "key", Empty)
        en == GetD(row, "en", Empty)
    IN IF _is_placeholder_value(en)
       THEN <<Issue(key, "invalid_or_placeholder", en)>>
       ELSE (IF en # Strip(en)
             THEN <<Issue(key, "leading_trailing_whitespace", en)>> ELSE <<>>)
            \o (IF ~_has_balanced_placeholders(en)
                THEN <<Issue(key, "unbalanced_placeholders", en)>> ELSE <<>>)
            \o (IF \E m \in Range(HotkeyMatches(en)) : Len(m) # 1
                THEN <<Issue(key, "invalid_hotkey_pattern", en)>> ELSE <<>>)

\* TranslationFixer.verify_english_texts: the issues of all rows, in order.
verify_english_texts(data) == Flatten([i \in 1..Len(data) |-> RowIssues(data[i])])

(***************************************************************************)
(* fix_translations.py : configuration                                     *)
(***************************************************************************)

EXPECTED_HEADER ==
    << "key", "en", "es-ES", "es-LA", "ca", "zh-CN", "zh-TW",
       "ja", "it", "de", "fr", "pt-PT", "ru", "pt-BR",
       "pl", "tr", "eu", "oc", "th", "ko", "cs" >>

\* Certain English UI tokens are acceptable to remain identical.
IDENTICAL_OK_WORDS ==
    { <<"o", "r", "i", "g", "i", "n", "a", "l">>,
      <<"p", "n", "g", "-", "2", "4", " ", "r", "g", "b">>,
      <<"p", "n", "g", "-", "8", " ", "i", "n", "d", "e", "x", "e", "d">> }

\* Keys that may intentionally remain identical (labels or tech names).
IDENTICAL_OK_KEYS ==
    { <<"o", "r", "i", "g", "i", "n", "a", "l", "P", "a", "l", "e", "t", "t", "e">>,
      <<"o", "r", "i", "g", "i", "n", "a", "l", "L", "a", "b", "e", "l">>,
      <<"o", "r", "i", "g", "i", "n", "a", "l", "S", "i", "z", "e">> }

\* The brand, console and technical terms of needs_translation.
Brands ==
    { <<"d", "e", "l", "i", "a", "x", "e">>,
      <<"a", "n", "a", "r", "k", "a", "d", "e">>,
      <<"g", "a", "m", "e", " ", "b", "o", "y">>,
      <<"m", "e", "g", "a", " ", "d", "r", "i", "v", "e">>,
      <<"m", "a", "s", "t", "e", "r", " ", "s", "y", "s", "t", "e", "m">>,
      <<"g", "a", "m", "e", " ", "g", "e", "a", "r">>,
      <<"n", "e", "o", " ", "g", "e", "o">>,
      <<"z", "x", " ", "s", "p", "e", "c", "t", "r", "u", "m">>,
      <<"a", "m", "s", "t", "r", "a", "d">>,
      <<"c", "o", "m", "m", "o", "d", "o", "r", "e", " ", "6", "4">>,
      <<"c", "o", "m", "m", "o", "d", "o", "r", "e", " ", "a", "m", "i", "g", "a">>,
      <<"n", "e", "s">>,
      <<"s", "n", "e", "s">> }

(***************************************************************************)
(* fix_translations.py : classification of a cell                          *)
(***************************************************************************)

\* re.fullmatch(r"\s*(c)\s*\d{4}\s*", text), (c) the copyright sign
FullmatchCopyright(text) ==
    LET a == LStrip(text) IN
    /\ a # <<>>
    /\ Head(a) = "(c)"
    /\ LET d == Strip(Tail(a)) IN
       Len(d) = 4 /\ \A i \in 1..4 : IsDigit(d[i])

\* TranslationFixer.needs_translation(value, language, english_text).  The
\* row key is not a parameter: line 263 binds row_key to None and passes.
needs_translation(value, language, english_text) ==
    IF Falsy(value) \/ Strip(value) = Empty THEN TRUE
    ELSE IF value \in {T_1, T_MT, T_TODO, T_FIXME} THEN TRUE
    ELSE IF StartsWith(value, T_MT) THEN TRUE
    ELSE IF language = "en" THEN FALSE
    ELSE IF \E brand \in Brands : Contains(Lower(english_text), brand) THEN FALSE
    ELSE IF FullmatchCopyright(english_text) THEN FALSE
    ELSE IF value = english_text
         THEN IF Lower(Strip(english_text)) \in IDENTICAL_OK_WORDS THEN FALSE
              ELSE TRUE
    ELSE TRUE

\* TranslationFixer._get_issue_type
_get_issue_type(value, english_text) ==
    IF StartsWith(value, T_MT) THEN "mt_prefix"
    ELSE IF value \in {T_1, T_TODO, T_FIXME, Empty} THEN "placeholder"
    ELSE IF value = english_text THEN "untranslated"
    ELSE "needs_review"

(***************************************************************************)
(* fix_translations.py : the translation request                           *)
(***************************************************************************)

\* LANGUAGE_INFO.get(lang, {"name": lang, "context": ""}): every language of
\* the header but 'key' and 'en' has an entry; the entry's texts are named
\* here by the language code they belong to.
LANGUAGE_INFO(lang) ==
    IF lang \in Range(EXPECTED_HEADER) \ {"key", "en"}
    THEN [name |-> <<"name", lang>>, context |-> <<"context", lang>>]
    ELSE [name |-> <<lang>>, context |-> <<>>]

\* The request_payload get_translation writes to translation_request.json.
get_translation(key, english_text, target_language) ==
    [ key |-> key,
      language |-> target_language,
      language_name |-> LANGUAGE_INFO(target_language).name,
      context |-> LANGUAGE_INFO(target_language).context,
      english |-> english_text,
      prompt |-> <<"TRANSLATION REQUEST", LANGUAGE_INFO(target_language).name,
                   target_language, key, english_text,
                   LANGUAGE_INFO(target_language).context>> ]

(***************************************************************************)
(* Files                                                                   *)
(***************************************************************************)

\* A CSV file as csv.DictReader reads it: the header and the row dicts.  A
\* file of zero bytes has no header and no rows.
File(header, rows) == [header |-> header, rows |-> rows]

EmptyFile == File(<<>>, <<>>)

\* An optional file is <<>> (absent) or <<content>>.
NoFile == <<>>

\* What csv.DictWriter(fieldnames) writes for a row dict, read back: the
\* fields of the header, None written as ''.
CsvRow(r, fieldnames) ==
    [c \in Range(fieldnames) |-> IF Get(r, c) = None THEN Empty ELSE r[c]]

\* DictWriter._dict_to_list raises ValueError for a dict with a key that is
\* no fieldname (extrasaction='raise').
HasExtraField(r, fieldnames) == ~(DOMAIN r \subseteq Range(fieldnames))

\* csv.DictWriter.writeheader(); writerows(data) into a freshly truncated
\* file: the rows before the first one with an extra field are written, then
\* the ValueError ends the writing.  [ok, file]
DictWriteRows(fieldnames, data) ==
    LET bad == {i \in 1..Len(data) : HasExtraField(data[i], fieldnames)}
        n == IF bad = {} THEN Len(data) ELSE Min(bad) - 1
    IN [ ok |-> bad = {},
         file |-> File(fieldnames, [i \in 1..n |-> CsvRow(data[i], fieldnames)]) ]

\* TranslationFixer.write_csv_data after its open(..., 'w'): the file it
\* leaves and the bool it returns.
write_csv_data(data) == DictWriteRows(EXPECTED_HEADER, data)

\* TranslationFixer.check_header_integrity: next(reader) on a file of zero
\* bytes raises StopIteration, which the except clause turns into False.
check_header_integrity(file) == file.header = EXPECTED_HEADER

\* TranslationFixer.read_csv_data
read_csv_data(file) == file.rows

(***************************************************************************)
(* State                                                                   *)
(***************************************************************************)

VARIABLES
    csvFile,     \* src/locales/translations.csv on disk
    tmpFile,     \* translations.csv.tmp of translate_csv.write_csv
    bakFile,     \* the backup translate_csv.backup / mark_missing wrote
    request,     \* translation_request.json
    jsonFile,    \* the key -> text mapping extract writes and apply reads
    tool,        \* the script (or pure function) of this run
    pc,          \* its position
    args,        \* its command-line arguments / parameters
    data,        \* the rows it holds in memory
    idx,         \* interactive_fix_language: the loop index i (1-based)
    counters,    \* the counters it reports
    issues,      \* what verify_english_texts returned in this run
    exit,        \* the exit status of the finished run, -1 while it runs
    outcome,     \* how the run ended
    runs,        \* batch runs started (a run and its re-run)
    loaded,      \* history: the table file as it was when the run started
    opens,       \* history: times this run opened/replaced the table file
    classified,  \* history: needs_translation calls of this run
    accepted,    \* history: the answers the interactive session applied
    readRows,    \* history: the rows this run read from the table file
    lastWrite,   \* history: the table file before, and the content meant
                 \* by, the last write this run began
    ret,         \* the value a pure function returned
    constFile,   \* src/locales/texts_constant.csv on disk
    trail        \* history: the scripts run so far on the constants table

vars == << csvFile, tmpFile, bakFile, request, jsonFile, tool, pc, args, data,
           idx, counters, issues, exit, outcome, runs, loaded, opens,
           classified, accepted, readRows, lastWrite, ret, constFile, trail >>

constVars == << constFile, trail >>

diskVars == << csvFile, tmpFile, bakFile, request, jsonFile >>

NoCounters == [updated |-> 0, skipped |-> 0, already_ok |-> 0, issues |-> 0]

\* No script has run yet.
Idle ==
    /\ tool = "none"
    /\ pc = "idle"
    /\ args = <<>>
    /\ data = <<>>
    /\ idx = 0
    /\ counters = NoCounters
    /\ issues = <<>>
    /\ exit = -1
    /\ outcome = "running"
    /\ runs = 0
    /\ opens = 0
    /\ classified = {}
    /\ accepted = <<>>
    /\ readRows = <<>>
    /\ lastWrite = <<>>
    /\ ret = <<>>
    /\ trail = <<>>

\* The run ends with this status.
Finish(status, how) ==
    /\ pc' = "done"
    /\ exit' = status
    /\ outcome' = how

(***************************************************************************)
(* Inputs of the fixer                                                     *)
(***************************************************************************)

\* The most rows a table holds.
MaxRows == 2

T_snes == <<"s", "n", "e", "s">>
T_Hi == <<"H", "i">>
T_Ho == <<"H", "o">>
T_MTa == <<"M", "T", ":", "a">>
T_a == <<"a">>
T_Unbalanced == <<"a", "{">>

K1 == <<"k", "1">>
K2 == <<"k", "2">>
K3 == <<"k", "3">>
K4 == <<"k", "4">>
K5 == <<"k", "5">>

\* A full-width row: its key, its English cell, its es-ES cell and the cell
\* every other language holds.
MkRow(key, en, es, rest) ==
    [c \in Range(EXPECTED_HEADER) |->
        IF c = "key" THEN key
        ELSE IF c = "en" THEN en
        ELSE IF c = "es-ES" THEN es
        ELSE rest]

\* A row with more cells than the header has: DictReader files them under
\* restkey.
WithExtra(r) == Put(r, RestKey, <<"x">>)

FixerRows ==
    { MkRow(K1, T_snes, T_snes, T_snes),               \* nothing to fix
      MkRow(K2, T_snes, T_MTa, T_snes),                \* an MT: cell
      MkRow(K3, T_Hi, T_Ho, T_Ho),                     \* translated
      MkRow(K4, T_Unbalanced, T_Ho, T_Ho),             \* English fails
      WithExtra(MkRow(K2, T_snes, T_MTa, T_snes)),     \* a cell too many
      MkRow(K5, T_snes, None, None) }                  \* a short row

SeqsUpTo(S, n) == UNION {[1..m -> S] : m \in 0..n}

\* The header with two columns swapped.
SwappedHeader ==
    [i \in 1..Len(EXPECTED_HEADER) |->
        IF i = 3 THEN EXPECTED_HEADER[4]
        ELSE IF i = 4 THEN EXPECTED_HEADER[3]
        ELSE EXPECTED_HEADER[i]]

FixerFiles ==
    {File(h, rows) : h \in {EXPECTED_HEADER, SwappedHeader},
                     rows \in SeqsUpTo(FixerRows, MaxRows)}
    \cup {EmptyFile}

\* What `git reset --hard CLEAN_COMMIT` can do to the table file: the
\* command fails, or it succeeds and the committed file is in place.
CleanFiles ==
    { File(EXPECTED_HEADER, <<MkRow(K1, T_snes, T_snes, T_snes)>>),
      File(EXPECTED_HEADER, <<MkRow(K3, T_Hi, T_Ho, T_Ho)>>),
      File(SwappedHeader, <<MkRow(K1, T_snes, T_snes, T_snes)>>) }

Reverts == {NoFile} \cup {<<f>> : f \in CleanFiles}

(***************************************************************************)
(* fix_translations.py : batch mode                                        *)
(***************************************************************************)

\* The header gate taking the recovered file on trust.
HeaderGateTrusting(file, rv) ==
    IF check_header_integrity(file) THEN [ok |-> TRUE, file |-> file]
    ELSE IF rv = NoFile THEN [ok |-> FALSE, file |-> file]
    ELSE [ok |-> TRUE, file |-> rv[1]]

\* Steps 1 of fix_translations and of interactive_fix_language: the header
\* check, one revert when it fails, and the header check again.  rv is what
\* the revert does: NoFile when git fails, <<f>> when it puts f in place.
HeaderGate(file, rv) ==
    IF check_header_integrity(file) THEN [ok |-> TRUE, file |-> file]
    ELSE IF rv = NoFile THEN [ok |-> FALSE, file |-> file]
    ELSE [ok |-> check_header_integrity(rv[1]), file |-> rv[1]]

\* `for lang_code in EXPECTED_HEADER[1:]: if lang_code == 'en': continue`
IsNotEn(c) == c # "en"

BatchLangs == SelectSeq(Tail(EXPECTED_HEADER), IsNotEn)

\* The body of _process_language's loop for the row at index i.
\* st: the rows, the fixes made, _data_changed, the cells classified, the
\* status ("running", "await" after get_translation's sys.exit(2), "crash"
\* after an uncaught exception) and the request written.
ProcessCell(st, lang_code, i) ==
    LET row == st.data[i]
        key == row["key"]
        english == row["en"]
        current_value == GetD(row, lang_code, Empty)
        seen == [st EXCEPT !.classified = @ \cup {<<i, lang_code>>}]
    IN IF ~needs_translation(current_value, lang_code, english) THEN seen
       ELSE IF current_value = None
            \* _get_issue_type: None has no startswith (AttributeError)
            THEN [seen EXCEPT !.status = "crash"]
       ELSE IF _get_issue_type(current_value, english) = "mt_prefix"
            THEN LET new_value == Strip(RemoveAll(current_value, T_MT)) IN
                 IF new_value # current_value
                 THEN [seen EXCEPT !.data[i] = Put(row, lang_code, new_value),
                                   !.changed = TRUE,
                                   !.fixes = @ + 1]
                 ELSE seen
       ELSE [seen EXCEPT !.status = "await",
                         !.request = <<get_translation(key, english, lang_code)>>]

\* The loops going on after a request was written.
RECURSIVE ProcessCellsOn(_, _, _)
ProcessCellsOn(st, l, i) ==
    IF st.status = "crash" \/ l > Len(BatchLangs) THEN st
    ELSE IF i > Len(st.data) THEN ProcessCellsOn(st, l + 1, 1)
    ELSE ProcessCellsOn(ProcessCell(st, BatchLangs[l], i), l, i + 1)

\* Step 4 of fix_translations: _process_language for each language in turn,
\* each over the rows in turn, until the run exits.
RECURSIVE ProcessCells(_, _, _)
ProcessCells(st, l, i) ==
    IF st.status # "running" \/ l > Len(BatchLangs) THEN st
    ELSE IF i > Len(st.data) THEN ProcessCells(st, l + 1, 1)
    ELSE ProcessCells(ProcessCell(st, BatchLangs[l], i), l, i + 1)

ProcessLanguages(rows) ==
    ProcessCells([data |-> rows, fixes |-> 0, changed |-> FALSE,
                  classified |-> {}, status |-> "running", request |-> NoFile],
                 1, 1)

\* `if en_issues: return False`: English must be clean before the other
\* languages are touched.
EnglishGateOff(en_issues) == FALSE

EnglishGate(en_issues) == en_issues # <<>>

\* What a run has done when it ends or reaches its first write.
Res(file, rows, en_issues, cls, req, to, status, how) ==
    [ file |-> file, data |-> rows, issues |-> en_issues, classified |-> cls,
      request |-> req, pc |-> to, exit |-> status, outcome |-> how ]

\* TranslationFixer.fix_translations up to its write, with main's mapping
\* of the result to the exit status.
fix_translations(file, rv) ==
    LET g == HeaderGate(file, rv)
        rows == read_csv_data(g.file)
        en_issues == verify_english_texts(rows)
        r == ProcessLanguages(rows)
    IN IF ~g.ok THEN Res(g.file, <<>>, <<>>, {}, NoFile, "done", 1, "header_failed")
       ELSE IF rows = <<>>
            THEN Res(g.file, rows, <<>>, {}, NoFile, "done", 1, "no_data")
       ELSE IF EnglishGate(en_issues)
            THEN Res(g.file, rows, en_issues, {}, NoFile, "done", 1, "english_failed")
       ELSE IF r.status = "await"
            THEN Res(g.file, r.data, en_issues, r.classified, r.request, "done", 2,
                     "awaiting_input")
       ELSE IF r.status = "crash"
            THEN Res(g.file, r.data, en_issues, r.classified, NoFile, "done", 1,
                     "crashed")
       ELSE IF r.changed /\ r.fixes > 0
            THEN Res(g.file, r.data, en_issues, r.classified, NoFile, "write_open", -1,
                     "running")
       ELSE Res(g.file, r.data, en_issues, r.classified, NoFile, "done", 0,
                "nothing_to_do")

\* The state a run of the fixer reaches from its start.
Reach(res) ==
    /\ csvFile' = res.file
    /\ data' = res.data
    /\ readRows' = IF res.outcome = "header_failed" THEN <<>> ELSE res.file.rows
    /\ issues' = res.issues
    /\ classified' = res.classified
    /\ request' = IF res.request = NoFile THEN request ELSE res.request
    /\ pc' = res.pc
    /\ exit' = res.exit
    /\ outcome' = res.outcome

\* `python fix_translations.py`: a first run, or the re-run after it.
FixerBatch ==
    /\ \/ pc = "idle"
       \/ pc = "done" /\ tool = "batch" /\ runs = 1
    /\ tool' = "batch"
    /\ runs' = runs + 1
    /\ args' = <<>>
    /\ loaded' = csvFile
    /\ opens' = 0
    /\ lastWrite' = <<>>
    /\ \E rv \in Reverts : Reach(fix_translations(csvFile, rv))
    /\ UNCHANGED <<constVars, tmpFile, bakFile, jsonFile, idx, counters, accepted, ret>>

(***************************************************************************)
(* fix_translations.py : write_csv_data, in place                          *)
(***************************************************************************)

\* open(self.csv_file_path, 'w'): the table file is truncated at once.
WriteOpen ==
    /\ pc = "write_open"
    /\ csvFile' = EmptyFile
    /\ opens' = opens + 1
    /\ lastWrite' = <<[pre |-> csvFile, post |-> write_csv_data(data).file]>>
    /\ pc' = "write_rows"
    /\ UNCHANGED <<constVars, tmpFile, bakFile, request, jsonFile, tool, args, data, idx,
                   counters, issues, exit, outcome, runs, loaded, classified,
                   accepted, readRows, ret>>

(***************************************************************************)
(* fix_translations.py : interactive mode                                  *)
(***************************************************************************)

\* The loop of interactive_fix_language from index i up to its next prompt:
\* rows that need no translation are counted already_ok and passed.
RECURSIVE NextPrompt(_, _, _)
NextPrompt(rows, lang_code, i) ==
    IF i > Len(rows) THEN i
    ELSE IF needs_translation(GetD(rows[i], lang_code, Empty), lang_code,
                              GetD(rows[i], "en", Empty))
         THEN i
    ELSE NextPrompt(rows, lang_code, i + 1)

\* start_idx: key_to_index keeps the last row of a key.
StartIndex(rows, start_key) ==
    LET at == {i \in 1..Len(rows) : rows[i]["key"] = start_key} IN
    IF Falsy(start_key) \/ at = {} THEN 1
    ELSE CHOOSE i \in at : \A j \in at : j <= i

\* The session goes on from index i: to its next prompt, or to its summary.
Resume(rows, lang_code, i, cnt) ==
    LET j == NextPrompt(rows, lang_code, i)
        cnt2 == [cnt EXCEPT !.already_ok = @ + (j - i)]
    IN /\ idx' = j
       /\ counters' = cnt2
       /\ classified' = classified \cup
              {<<k, lang_code>> : k \in i..(IF j > Len(rows) THEN Len(rows) ELSE j)}
       /\ IF j > Len(rows)
          THEN Finish(0, "session_complete")
          ELSE pc' = "prompt" /\ exit' = -1 /\ outcome' = "running"

\* interactive_fix_language up to its loop.
interactive_start(file, rv, lang_code) ==
    LET g == HeaderGate(file, rv)
        rows == read_csv_data(g.file)
        en_issues == verify_english_texts(rows)
    IN IF lang_code \notin Range(EXPECTED_HEADER)
       THEN Res(file, <<>>, <<>>, {}, NoFile, "done", 1, "unknown_language")
       ELSE IF ~g.ok
            THEN Res(g.file, <<>>, <<>>, {}, NoFile, "done", 1, "header_failed")
       ELSE IF rows = <<>>
            THEN Res(g.file, rows, <<>>, {}, NoFile, "done", 1, "no_data")
       ELSE IF EnglishGate(en_issues)
            THEN Res(g.file, rows, en_issues, {}, NoFile, "done", 1, "english_failed")
       ELSE Res(g.file, rows, en_issues, {}, NoFile, "loop", -1, "running")

\* `python fix_translations.py --lang L [--start-key K]`
FixerInteractive(lang_code, start_key) ==
    /\ pc = "idle"
    /\ tool' = "interactive"
    /\ args' = [lang |-> lang_code, start_key |-> start_key]
    /\ loaded' = csvFile
    /\ opens' = 0
    /\ \E rv \in Reverts :
         LET res == interactive_start(csvFile, rv, lang_code) IN
         /\ csvFile' = res.file
         /\ data' = res.data
         /\ readRows' = res.data
         /\ issues' = res.issues
         /\ IF res.pc = "loop"
            THEN Resume(res.data, lang_code, StartIndex(res.data, start_key),
                        NoCounters)
            ELSE /\ Finish(res.exit, res.outcome)
                 /\ UNCHANGED <<idx, counters, classified>>
    /\ UNCHANGED <<constVars, tmpFile, bakFile, request, jsonFile, runs, accepted, lastWrite,
                   ret>>

\* input("-> ").strip() returned: the operator typed a line.
\* The answer kept in memory only, the table file left for a later flush.
InteractiveAnswerUnflushed(line) ==
    /\ tool = "interactive" /\ pc = "prompt"
    /\ LET user == Strip(line)
           row == data[idx]
           current == GetD(row, args.lang, Empty)
       IN IF user = Empty
          THEN UNCHANGED vars
          ELSE IF user # current
          THEN /\ data' = [data EXCEPT ![idx] = Put(row, args.lang, user)]
               /\ accepted' = Append(accepted,
                                     [row |-> idx, lang |-> args.lang, text |-> user])
               /\ Resume([data EXCEPT ![idx] = Put(row, args.lang, user)],
                         args.lang, idx + 1, [counters EXCEPT !.updated = @ + 1])
               /\ UNCHANGED <<constVars, diskVars, tool, args, issues, runs, loaded, opens,
                              readRows, lastWrite, ret>>
          ELSE /\ Resume(data, args.lang, idx + 1,
                         [counters EXCEPT !.skipped = @ + 1])
               /\ UNCHANGED <<constVars, diskVars, tool, args, data, issues, runs, loaded,
                              opens, accepted, readRows, lastWrite, ret>>

InteractiveAnswer(line) ==
    /\ tool = "interactive" /\ pc = "prompt"
    /\ LET user == Strip(line)
           row == data[idx]
           current == GetD(row, args.lang, Empty)
       IN IF user = Empty
          THEN UNCHANGED vars                        \* the same prompt again
          ELSE IF user # current
          THEN /\ data' = [data EXCEPT ![idx] = Put(row, args.lang, user)]
               /\ accepted' = Append(accepted,
                                     [row |-> idx, lang |-> args.lang, text |-> user])
               /\ pc' = "write_open"
               /\ UNCHANGED <<constVars, diskVars, tool, args, idx, counters, issues, exit,
                              outcome, runs, loaded, opens, classified, readRows,
                              lastWrite, ret>>
          ELSE /\ Resume(data, args.lang, idx + 1,
                         [counters EXCEPT !.skipped = @ + 1])
               /\ UNCHANGED <<constVars, diskVars, tool, args, data, issues, runs, loaded,
                              opens, accepted, readRows, lastWrite, ret>>

\* input() raised EOFError or KeyboardInterrupt: break, summary, return True.
InteractiveCancel ==
    /\ tool = "interactive" /\ pc = "prompt"
    /\ Finish(0, "cancelled")
    /\ UNCHANGED <<constVars, diskVars, tool, args, data, idx, counters, issues, runs,
                   loaded, opens, classified, accepted, readRows, lastWrite, ret>>

(***************************************************************************)
(* fix_translations.py : apply_answer                                      *)
(***************************************************************************)

\* TranslationFixer.apply_answer up to its write: the rows with the first
\* row of the key updated, and whether that changed it.
apply_answer(rows, lang_code, key, text) ==
    LET at == {i \in 1..Len(rows) : Get(rows[i], "key") = key}
        i == Min(at)
    IN IF at = {} \/ GetD(rows[i], lang_code, Empty) = text
       THEN [data |-> rows, updated |-> FALSE]
       ELSE [data |-> [rows EXCEPT ![i] = Put(@, lang_code, text)],
             updated |-> TRUE]

FixerAnswer(lang_code, key, text) ==
    /\ pc = "idle"
    /\ tool' = "answer"
    /\ args' = [lang |-> lang_code, key |-> key, text |-> text]
    /\ loaded' = csvFile
    /\ opens' = 0
    /\ LET rows == read_csv_data(csvFile)
           a == apply_answer(rows, lang_code, key, text)
       IN /\ data' = a.data
          /\ readRows' = rows
          /\ IF rows = <<>> THEN Finish(1, "no_data")
             ELSE IF a.updated
             THEN pc' = "write_open" /\ exit' = -1 /\ outcome' = "running"
             ELSE Finish(0, "no_change")
    /\ UNCHANGED <<constVars, diskVars, idx, counters, issues, runs, classified, accepted,
                   lastWrite, ret>>

\* writer.writeheader(); writer.writerows(data); the file is closed; the
\* caller goes on with the bool write_csv_data returned.
WriteRows ==
    /\ pc = "write_rows" /\ tool \in {"batch", "interactive", "answer"}
    /\ LET w == write_csv_data(data) IN
       /\ csvFile' = w.file
       /\ IF ~w.ok
          THEN Finish(1, "write_failed") /\ UNCHANGED <<idx, counters, classified>>
          ELSE IF tool = "interactive"
          THEN Resume(data, args.lang, idx + 1,
                      [counters EXCEPT !.updated = @ + 1])
          ELSE Finish(0, "written") /\ UNCHANGED <<idx, counters, classified>>
    /\ UNCHANGED <<constVars, tmpFile, bakFile, request, jsonFile, tool, args, data, issues,
                   runs, loaded, opens, accepted, readRows, lastWrite, ret>>

(***************************************************************************)
(* The fixer: one script started on a table file, and the batch re-run     *)
(***************************************************************************)

InteractiveLangs == {"es-ES", "cs", "xx"}
StartKeys == {None, K2}
Lines == {Empty, <<"H", "o", " ">>, T_snes}
AnswerLangs == {"es-ES", "xx"}
AnswerKeys == {K2, K3}
AnswerTexts == {T_Ho, T_MTa}

Init ==
    /\ csvFile \in FixerFiles
    /\ tmpFile = NoFile
    /\ bakFile = NoFile
    /\ request = NoFile
    /\ jsonFile = NoFile
    /\ constFile = <<>>
    /\ loaded = csvFile
    /\ Idle

Next ==
    \/ FixerBatch
    \/ \E l \in InteractiveLangs, k \in StartKeys : FixerInteractive(l, k)
    \/ \E line \in Lines : InteractiveAnswer(line)
    \/ InteractiveCancel
    \/ \E l \in AnswerLangs, k \in AnswerKeys, t \in AnswerTexts : FixerAnswer(l, k, t)
    \/ WriteOpen
    \/ WriteRows

Spec == Init /\ [][Next]_vars

(***************************************************************************)
(* Properties of the fixer                                                 *)
(***************************************************************************)

\* The cells of a table, a missing cell (None) read as the empty cell.
CellsOf(rows) ==
    [i \in 1..Len(rows) |->
        [c \in DOMAIN rows[i] |-> IF rows[i][c] = None THEN Empty ELSE rows[i][c]]]

\* The rows with the answers applied in turn, each to its one cell.
RECURSIVE ApplyAnswers(_, _)
ApplyAnswers(rows, answers) ==
    IF answers = <<>> THEN rows
    ELSE ApplyAnswers([rows EXCEPT ![Head(answers).row] =
                                      Put(@, Head(answers).lang, Head(answers).text)],
                      Tail(answers))

EnglishFails(row) == RowIssues(row) # <<>>

FailingRows(rows) == {i \in 1..Len(rows) : EnglishFails(rows[i])}

IssueTypes ==
    { "invalid_or_placeholder", "leading_trailing_whitespace",
      "unbalanced_placeholders", "invalid_hotkey_pattern" }

\* C2 (as claimed): once a fixer tool has written the table file, whether
\* the write succeeded or failed part-way, the file has the expected header
\* and the rows the run read, as many and in the same order.
C2_SchemaAndRowsKept ==
    (tool \in {"batch", "interactive", "answer"} /\ opens > 0 /\ pc # "write_rows")
        => /\ csvFile.header = EXPECTED_HEADER
           /\ Len(csvFile.rows) = Len(readRows)
           /\ \A i \in 1..Len(readRows) :
                  Get(csvFile.rows[i], "key") = Get(readRows[i], "key")

\* C3 (as claimed): the re-run of the batch fixer on a table that passes the
\* header and English checks changes nothing, writes nothing and ends with
\* exit status 0, "nothing to do".
C3_RerunNothingToDo ==
    ( /\ tool = "batch" /\ runs = 2 /\ pc = "done"
      /\ check_header_integrity(loaded)
      /\ loaded.rows # <<>>
      /\ verify_english_texts(loaded.rows) = <<>> )
        => /\ exit = 0
           /\ outcome = "nothing_to_do"
           /\ opens = 0
           /\ csvFile = loaded

\* C5: when a row's English cell fails verification, the batch and the
\* interactive run end with failure, no non-English cell was classified,
\* prompted for, changed or written, no request was emitted, and the issue
\* list has an entry (key, kind, value) for every failing row.
C5_SourceLanguageGate ==
    (tool \in {"batch", "interactive"} /\ FailingRows(readRows) # {})
        => /\ pc = "done" /\ exit = 1 /\ outcome = "english_failed"
           /\ classified = {}
           /\ accepted = <<>>
           /\ opens = 0
           /\ request = NoFile
           /\ data = readRows
           /\ csvFile.rows = readRows
           /\ Len(issues) >= Cardinality(FailingRows(readRows))
           /\ \A i \in FailingRows(readRows) :
                 \E k \in 1..Len(issues) :
                     /\ issues[k].key = GetD(readRows[i], "key", Empty)
                     /\ issues[k].value = GetD(readRows[i], "en", Empty)
                     /\ issues[k].type \in IssueTypes

\* C5 witness: a run stopped at the gate by the second row of its table.
C5_Witness ==
    /\ tool = "interactive" /\ outcome = "english_failed"
    /\ Len(readRows) = 2
    /\ FailingRows(readRows) = {2}

\* C9 (as claimed): whenever a run has begun a write of the table file, the
\* file holds the complete content from before that write or the complete
\* content the write was to leave.
C9_AtomicReplace ==
    lastWrite # <<>> => csvFile \in {lastWrite[1].pre, lastWrite[1].post}

\* C10: whenever the interactive fixer waits at a prompt, and when the
\* operator has cancelled at a prompt, the table file holds what memory
\* holds, and that is the rows read with exactly the accepted answers
\* applied, one cell each; a cancelled session ends with status 0.
C10_WriteThrough ==
    (tool = "interactive" /\ (pc = "prompt" \/ outcome = "cancelled"))
        => /\ CellsOf(csvFile.rows) = CellsOf(data)
           /\ csvFile.header = EXPECTED_HEADER
           /\ data = ApplyAnswers(readRows, accepted)
           /\ \A k \in 1..Len(accepted) :
                  /\ accepted[k].lang = args.lang
                  /\ accepted[k].row \in 1..Len(readRows)
                  /\ accepted[k].text #
                       GetD(ApplyAnswers(readRows, SubSeq(accepted, 1, k - 1))
                                [accepted[k].row], args.lang, Empty)
           /\ (outcome = "cancelled" => pc = "done" /\ exit = 0)

\* C10 witness: an answer was accepted and flushed, and the operator
\* cancelled at the next prompt.
C10_Witness ==
    /\ tool = "interactive" /\ outcome = "cancelled"
    /\ Len(accepted) = 1
    /\ opens = 1
    /\ csvFile # loaded

(***************************************************************************)
(* verify_english_texts on one row, over all short texts                   *)
(***************************************************************************)

\* The longest text drawn from VerifyChars.
MaxTextLen == 3

VerifyChars == {" ", "a", "{", "}", "[", "]"}

T_Width == <<"W", ":", " ", "{", "w", "}", "p", "x">>
T_WidthOpen == <<"W", ":", " ", "{", "w">>

VerifyTexts ==
    SeqsUpTo(VerifyChars, MaxTextLen)
    \cup { None, T_1, T_MT, T_MTa, T_TODO, T_FIXME, T_Hi, T_Width, T_WidthOpen,
           <<" ", "1">>, <<"T", "O", "D", "O", " ">>, <<"1", "a">>,
           <<"[", "I", "]", " ", "a">>, <<"a", " ", "[", "]">> }

InitVerify ==
    /\ csvFile = EmptyFile
    /\ tmpFile = NoFile
    /\ bakFile = NoFile
    /\ request = NoFile
    /\ jsonFile = NoFile
    /\ constFile = <<>>
    /\ loaded = csvFile
    /\ tool = "verify"
    /\ pc = "call"
    /\ \E en \in VerifyTexts : args = <<[c \in {"key", "en"} |-> IF c = "key" THEN K1 ELSE en]>>
    /\ data = <<>>
    /\ idx = 0
    /\ counters = NoCounters
    /\ issues = <<>>
    /\ exit = -1
    /\ outcome = "running"
    /\ runs = 0
    /\ opens = 0
    /\ classified = {}
    /\ accepted = <<>>
    /\ readRows = <<>>
    /\ lastWrite = <<>>
    /\ ret = <<>>
    /\ trail = <<>>

\* en_issues = self.verify_english_texts(data) on the one-row table.
VerifyEnglish ==
    /\ tool = "verify" /\ pc = "call"
    /\ issues' = verify_english_texts(args)
    /\ pc' = "done"
    /\ UNCHANGED <<constVars, diskVars, tool, args, data, idx, counters, exit, outcome, runs,
                   loaded, opens, classified, accepted, readRows, lastWrite, ret>>

SpecVerify == InitVerify /\ [][VerifyEnglish]_vars

\* The sentinels as the claim lists them.
ListedSentinel(en) ==
    \/ en = None
    \/ en = Empty
    \/ Strip(en) = Empty
    \/ en \in {T_1, T_TODO, T_FIXME}
    \/ StartsWith(en, T_MT)

\* The bracket-delimited tags of a text: what stands between a "[" and the
\* next "]", an empty tag included.
RECURSIVE BracketTags(_)
BracketTags(s) ==
    IF s = <<>> THEN <<>>
    ELSE IF Head(s) # "[" THEN BracketTags(Tail(s))
    ELSE LET rest == Tail(s)
             closes == {j \in 1..Len(rest) : rest[j] = "]"}
         IN IF closes = {} THEN <<>>
            ELSE <<SubSeq(rest, 1, Min(closes) - 1)>>
                     \o BracketTags(SubSeq(rest, Min(closes) + 1, Len(rest)))

\* C6 (as claimed): verification passes for a row exactly when its English
\* cell is no sentinel, has no leading or trailing whitespace, as many "{" as
\* "}", and exactly one character in every bracket-delimited tag.
C6_VerifyExactly ==
    (tool = "verify" /\ pc = "done")
        => LET en == args[1]["en"] IN
           (issues = <<>>) <=>
               /\ ~ListedSentinel(en)
               /\ en = Strip(en)
               /\ Count(en, "{") = Count(en, "}")
               /\ \A t \in Range(BracketTags(en)) : Len(t) = 1

(***************************************************************************)
(* needs_translation as _process_language calls it on one cell             *)
(***************************************************************************)

T_Original == <<"O", "r", "i", "g", "i", "n", "a", "l">>
T_Originals == <<"O", "r", "i", "g", "i", "n", "a", "l", "s">>
T_Lines == <<"L", "i", "n", "e", "s">>
T_Bye == <<"B", "y", "e">>
T_Copyright == <<"(c)", " ", "2", "0", "2", "5">>
K_originalLabel == <<"o", "r", "i", "g", "i", "n", "a", "l", "L", "a", "b", "e", "l">>

NeedsKeys == {K1, K_originalLabel}
NeedsEnglish == {T_Original, T_Originals, T_Lines, T_Bye, T_Hi, T_Copyright, T_snes}
NeedsValues == NeedsEnglish \cup {None, Empty, <<" ">>, T_1, T_MT, T_MTa, T_TODO, T_Ho}

InitNeeds ==
    /\ csvFile = EmptyFile
    /\ tmpFile = NoFile
    /\ bakFile = NoFile
    /\ request = NoFile
    /\ jsonFile = NoFile
    /\ constFile = <<>>
    /\ loaded = csvFile
    /\ tool = "needs"
    /\ pc = "call"
    /\ \E k \in NeedsKeys, en \in NeedsEnglish, v \in NeedsValues,
          l \in Range(Tail(EXPECTED_HEADER)) :
          args = [lang |-> l,
                  row |-> [c \in {"key", "en", l} |->
                              IF c = "key" THEN k ELSE IF c = "en" THEN en ELSE v]]
    /\ data = <<>>
    /\ idx = 0
    /\ counters = NoCounters
    /\ issues = <<>>
    /\ exit = -1
    /\ outcome = "running"
    /\ runs = 0
    /\ opens = 0
    /\ classified = {}
    /\ accepted = <<>>
    /\ readRows = <<>>
    /\ lastWrite = <<>>
    /\ ret = <<>>
    /\ trail = <<>>

\* `self.needs_translation(current_value, lang_code, english)` for the row.
ClassifyCell ==
    /\ tool = "needs" /\ pc = "call"
    /\ ret' = <<needs_translation(GetD(args.row, args.lang, Empty), args.lang,
                                  args.row["en"])>>
    /\ pc' = "done"
    /\ UNCHANGED <<constVars, diskVars, tool, args, data, idx, counters, issues, exit, outcome,
                   runs, loaded, opens, classified, accepted, readRows, lastWrite>>

SpecNeeds == InitNeeds /\ [][ClassifyCell]_vars

\* The literal value is on the allowed-values list.
AllowedValue(v) == Lower(Strip(v)) \in IDENTICAL_OK_WORDS

\* C7 (as claimed): in a non-English column, a non-empty, non-sentinel cell
\* equal to the row's English source is flagged unless the row's key is in
\* IDENTICAL_OK_KEYS or the value is an allowed value, and then it is not.
C7_IdenticalValue ==
    LET v == GetD(args.row, args.lang, Empty) IN
    ( /\ tool = "needs" /\ pc = "done"
      /\ args.lang # "en"
      /\ ~_is_placeholder_value(v)
      /\ v = args.row["en"] )
        => (ret[1] <=> ~(args.row["key"] \in IDENTICAL_OK_KEYS \/ AllowedValue(v)))

(***************************************************************************)
(* translate_csv.py                                                        *)
(***************************************************************************)

\* translate_csv.read_csv: DictReader's fieldnames (or []) and rows.
read_csv(file) == [headers |-> file.header, rows |-> file.rows]

\* `r.get('key') or r.get('id') or None`
RowKey(r) ==
    IF ~Falsy(Get(r, "key")) THEN r["key"]
    ELSE IF ~Falsy(Get(r, "id")) THEN r["id"]
    ELSE None

\* re.findall(r"\{[^}]+\}", text or ''): the tokens, named by what stands
\* between their braces.
RECURSIVE BraceMatches(_)
BraceMatches(s) ==
    IF s = <<>> THEN <<>>
    ELSE IF Head(s) # "{" THEN BraceMatches(Tail(s))
    ELSE LET rest == Tail(s)
             closes == {j \in 1..Len(rest) : rest[j] = "}"}
         IN IF closes = {} THEN BraceMatches(rest)
            ELSE LET j == Min(closes) IN
                 IF j = 1 THEN BraceMatches(rest)
                 ELSE <<SubSeq(rest, 1, j - 1)>>
                          \o BraceMatches(SubSeq(rest, j + 1, Len(rest)))

placeholders(text) == BraceMatches(OrEmpty(text))

\* extract with the sense of --only-empty inverted.
WantsTextInverted(only_empty, tgt) == only_empty /\ tgt # Empty

\* extract's two tests of the target cell: `if only_empty and tgt: continue`
\* and `if not tgt:`.
WantsText(only_empty, tgt) == ~(only_empty /\ tgt # Empty) /\ tgt = Empty

\* The rows of extract's loop that reach `data[key] = en`.
Extracted(rows, lang, only_empty) ==
    {i \in 1..Len(rows) :
        LET en == Strip(OrEmpty(Get(rows[i], "en")))
            tgt == Strip(OrEmpty(Get(rows[i], lang)))
        IN /\ ~Falsy(RowKey(rows[i]))
           /\ en # Empty
           /\ WantsText(only_empty, tgt)}

\* translate_csv.extract: the mapping it dumps; a later row of a key
\* replaces an earlier one.
extract(rows, lang, only_empty) ==
    LET E == Extracted(rows, lang, only_empty) IN
    [k \in {RowKey(rows[i]) : i \in E} |->
        LET last == CHOOSE i \in E :
                        /\ RowKey(rows[i]) = k
                        /\ \A j \in E : RowKey(rows[j]) = k => j <= i
        IN Strip(OrEmpty(Get(rows[last], "en")))]

\* apply with --force ignored.
KeepOldAlways(old, force) == old # Empty

\* `if old and not force:`
KeepOld(old, force) == old # Empty /\ ~force

\* apply's loop body leaving the cell alone when the placeholders differ.
ApplyRowBlocking(r, lang, json, force) ==
    LET key == RowKey(r)
        en == Strip(OrEmpty(Get(r, "en")))
        old == OrEmpty(Get(r, lang))
        same == [row |-> r, updated |-> 0, skipped |-> 0, issues |-> 0]
    IN IF Falsy(key) THEN same
       ELSE IF en = Empty THEN same
       ELSE IF key \notin DOMAIN json THEN same
       ELSE LET new == Strip(json[key]) IN
            IF KeepOld(old, force) THEN [same EXCEPT !.skipped = 1]
            ELSE IF Range(placeholders(en)) # Range(placeholders(new))
            THEN [same EXCEPT !.issues = 1]
            ELSE [row |-> Put(r, lang, new), updated |-> 1, skipped |-> 0,
                  issues |-> 0]

\* The body of apply's loop for one row: the row it leaves and what it adds
\* to the counters.
ApplyRow(r, lang, json, force) ==
    LET key == RowKey(r)
        en == Strip(OrEmpty(Get(r, "en")))
        old == OrEmpty(Get(r, lang))
        same == [row |-> r, updated |-> 0, skipped |-> 0, issues |-> 0]
    IN IF Falsy(key) THEN same
       ELSE IF en = Empty THEN same
       ELSE IF key \notin DOMAIN json THEN same
       ELSE LET new == Strip(json[key]) IN
            IF KeepOld(old, force) THEN [same EXCEPT !.skipped = 1]
            ELSE [ row |-> Put(r, lang, new),
                   updated |-> 1,
                   skipped |-> 0,
                   issues |-> IF Range(placeholders(en)) # Range(placeholders(new))
                              THEN 1 ELSE 0 ]

RECURSIVE SumOver(_, _)
SumOver(f, n) == IF n = 0 THEN 0 ELSE f[n] + SumOver(f, n - 1)

\* translate_csv.write_csv's temporary file: every header field of every
\* row, `r.get(h) or ''`.
write_csv(headers, rows) ==
    File(headers,
         [i \in 1..Len(rows) |-> [h \in Range(headers) |-> OrEmpty(Get(rows[i], h))]])

\* `--extract LANG [--only-empty]`
Extract(lang, only_empty) ==
    /\ pc = "idle"
    /\ tool' = "extract"
    /\ args' = [lang |-> lang, only_empty |-> only_empty]
    /\ loaded' = csvFile
    /\ LET t == read_csv(csvFile) IN
       /\ readRows' = t.rows
       /\ data' = t.rows
       /\ IF "en" \notin Range(t.headers)
          THEN Finish(2, "no_en_column") /\ UNCHANGED jsonFile
          ELSE IF lang \notin Range(t.headers)
          THEN Finish(2, "no_lang_column") /\ UNCHANGED jsonFile
          ELSE /\ jsonFile' = <<extract(t.rows, lang, only_empty)>>
               /\ Finish(0, "extracted")
    /\ UNCHANGED <<constVars, csvFile, tmpFile, bakFile, request, idx, counters, issues, runs,
                   opens, classified, accepted, lastWrite, ret>>

\* The translator fills in a text for every extracted key.
Translate(m) ==
    /\ tool = "extract" /\ pc = "done" /\ exit = 0
    /\ DOMAIN m = DOMAIN jsonFile[1]
    /\ jsonFile' = <<m>>
    /\ ret' = <<args.lang>>
    /\ pc' = "translated"
    /\ UNCHANGED <<constVars, csvFile, tmpFile, bakFile, request, tool, args, data, idx,
                   counters, issues, exit, outcome, runs, loaded, opens,
                   classified, accepted, readRows, lastWrite>>

\* `--apply LANG --file FILE [--force]` up to the backup.
ApplyStart(lang, force) ==
    /\ pc = "idle" \/ (pc = "translated" /\ lang = args.lang)
    /\ tool' = "apply"
    /\ args' = [lang |-> lang, force |-> force]
    /\ loaded' = csvFile
    /\ counters' = NoCounters
    /\ LET t == read_csv(csvFile) IN
       /\ readRows' = t.rows
       /\ data' = t.rows
       /\ IF "en" \notin Range(t.headers) THEN Finish(2, "no_en_column")
          ELSE IF lang \notin Range(t.headers) THEN Finish(2, "no_lang_column")
          ELSE pc' = "backup" /\ exit' = -1 /\ outcome' = "running"
    /\ UNCHANGED <<constVars, diskVars, idx, issues, runs, opens, classified, accepted,
                   lastWrite, ret>>

\* apply going on to its loop without the backup.
ApplyBackupSkipped ==
    /\ tool = "apply" /\ pc = "backup"
    /\ pc' = "apply_loop"
    /\ UNCHANGED <<constVars, diskVars, tool, args, data, idx, counters, issues,
                   exit, outcome, runs, loaded, opens, classified, accepted,
                   readRows, lastWrite, ret>>

\* bak = backup(CSV_PATH)
ApplyBackup ==
    /\ tool = "apply" /\ pc = "backup"
    /\ bakFile' = <<csvFile>>
    /\ pc' = "apply_loop"
    /\ UNCHANGED <<constVars, csvFile, tmpFile, request, jsonFile, tool, args, data, idx,
                   counters, issues, exit, outcome, runs, loaded, opens,
                   classified, accepted, readRows, lastWrite, ret>>

\* apply's loop over the rows, and write_csv up to its os.replace.
ApplyLoop ==
    /\ tool = "apply" /\ pc = "apply_loop"
    /\ LET a == [i \in 1..Len(data) |->
                    ApplyRow(data[i], args.lang, jsonFile[1], args.force)]
           rows == [i \in 1..Len(data) |-> a[i].row]
       IN /\ data' = rows
          /\ counters' = [ updated |-> SumOver([i \in 1..Len(data) |-> a[i].updated], Len(data)),
                           skipped |-> SumOver([i \in 1..Len(data) |-> a[i].skipped], Len(data)),
                           issues |-> SumOver([i \in 1..Len(data) |-> a[i].issues], Len(data)),
                           already_ok |-> 0 ]
          /\ tmpFile' = <<write_csv(csvFile.header, rows)>>
    /\ pc' = "replace"
    /\ UNCHANGED <<constVars, csvFile, bakFile, request, jsonFile, tool, args, idx, issues,
                   exit, outcome, runs, loaded, opens, classified, accepted,
                   readRows, lastWrite, ret>>

\* os.replace(tmp, path)
ApplyReplace ==
    /\ tool = "apply" /\ pc = "replace"
    /\ csvFile' = tmpFile[1]
    /\ tmpFile' = NoFile
    /\ opens' = opens + 1
    /\ lastWrite' = <<[pre |-> csvFile, post |-> tmpFile[1]]>>
    /\ Finish(0, "applied")
    /\ UNCHANGED <<constVars, bakFile, request, jsonFile, tool, args, data, idx, counters,
                   issues, runs, loaded, classified, accepted, readRows, ret>>

(***************************************************************************)
(* mark_missing_translations.py                                            *)
(***************************************************************************)

\* The loop of mark_missing over one row: every language cell that is
\* blank gets 'EN: ' and the English text, when there is one.
T_ENPrefix == <<"E", "N", ":", " ">>

MarkRow(row, fieldnames) ==
    LET en == Strip(OrEmpty(Get(row, "en")))
        lang_cols == Range(fieldnames) \ {"key", "en"}
    IN [c \in (DOMAIN row) \cup (IF en # Empty THEN lang_cols ELSE {}) |->
           IF c \in lang_cols /\ Strip(OrEmpty(Get(row, c))) = Empty /\ en # Empty
           THEN T_ENPrefix \o en
           ELSE row[c]]

\* The script up to its `csv_path.open('w')`: the backup, the read, the
\* check of the `en` column and the loop.
MarkStart ==
    /\ pc = "idle"
    /\ tool' = "mark"
    /\ args' = <<>>
    /\ loaded' = csvFile
    /\ bakFile' = <<csvFile>>
    /\ readRows' = csvFile.rows
    /\ IF csvFile.header = <<>> \/ "en" \notin Range(csvFile.header)
       THEN Finish(2, "no_en_column") /\ data' = csvFile.rows
       ELSE /\ data' = [i \in 1..Len(csvFile.rows) |->
                           MarkRow(csvFile.rows[i], csvFile.header)]
            /\ pc' = "mark_open" /\ exit' = -1 /\ outcome' = "running"
    /\ UNCHANGED <<constVars, csvFile, tmpFile, request, jsonFile, idx, counters, issues,
                   runs, opens, classified, accepted, lastWrite, ret>>

\* csv_path.open('w', ...): the table file is truncated.
MarkOpen ==
    /\ tool = "mark" /\ pc = "mark_open"
    /\ csvFile' = EmptyFile
    /\ opens' = opens + 1
    /\ lastWrite' = <<[pre |-> csvFile,
                       post |-> DictWriteRows(loaded.header, data).file]>>
    /\ pc' = "mark_rows"
    /\ UNCHANGED <<constVars, tmpFile, bakFile, request, jsonFile, tool, args, data, idx,
                   counters, issues, exit, outcome, runs, loaded, classified,
                   accepted, readRows, ret>>

\* writer.writeheader(); writer.writerows(rows): a ValueError is not caught
\* and ends the script with a traceback.
MarkRows ==
    /\ tool = "mark" /\ pc = "mark_rows"
    /\ LET w == DictWriteRows(loaded.header, data) IN
       /\ csvFile' = w.file
       /\ IF w.ok THEN Finish(0, "marked") ELSE Finish(1, "crashed")
    /\ UNCHANGED <<constVars, tmpFile, bakFile, request, jsonFile, tool, args, data, idx,
                   counters, issues, runs, loaded, opens, classified, accepted,
                   readRows, lastWrite, ret>>

(***************************************************************************)
(* check_cs_coverage.py                                                    *)
(***************************************************************************)

\* `for k in missing_keys[:50]`
FirstN == 50

DigitChars == <<"0", "1", "2", "3", "4", "5", "6", "7", "8", "9">>

\* str(n)
RECURSIVE Digits(_)
Digits(n) ==
    IF n < 10 THEN <<DigitChars[n + 1]>>
    ELSE Digits(n \div 10) \o <<DigitChars[(n % 10) + 1]>>

\* f'row#{total}'
RowLabel(total) == <<"r", "o", "w", "#">> \o Digits(total)

\* A cell counted as filled though it holds whitespace only.
IsFilledUntrimmed(val) == val # None /\ val # Empty

\* `val is not None and val.strip() != ''`
IsFilled(val) == val # None /\ Strip(val) # Empty

\* `row.get('key') or row.get('Key') or f'row#{total}'`
MissingKey(row, total) ==
    IF ~Falsy(Get(row, "key")) THEN row["key"]
    ELSE IF ~Falsy(Get(row, "Key")) THEN row["Key"]
    ELSE RowLabel(total)

\* The loop over the rows and the report printed after it.
Coverage(rows) ==
    LET miss == SelectSeq([i \in 1..Len(rows) |-> i],
                          LAMBDA i : ~IsFilled(GetD(rows[i], "cs", Empty)))
        missing_keys == [k \in 1..Len(miss) |-> MissingKey(rows[miss[k]], miss[k])]
        filled == Len(rows) - Len(miss)
    IN [ total |-> Len(rows),
         filled |-> filled,
         missing |-> Len(rows) - filled,
         listed |-> SubSeq(missing_keys, 1, Min({FirstN, Len(missing_keys)})) ]

\* `python check_cs_coverage.py`
CheckCoverage ==
    /\ pc = "idle"
    /\ tool' = "coverage"
    /\ args' = <<>>
    /\ loaded' = csvFile
    /\ IF csvFile.header = <<>>
       THEN \* reader.fieldnames is None: TypeError
            /\ Finish(1, "crashed")
            /\ UNCHANGED <<readRows, data, ret>>
       ELSE IF "cs" \notin Range(csvFile.header)
       THEN /\ Finish(2, "no_lang_column")
            /\ UNCHANGED <<readRows, data, ret>>
       ELSE /\ readRows' = csvFile.rows
            /\ data' = csvFile.rows
            /\ ret' = <<Coverage(csvFile.rows)>>
            /\ Finish(0, "reported")
    /\ UNCHANGED <<constVars, diskVars, idx, counters, issues, runs, opens,
                   classified, accepted, lastWrite>>

(***************************************************************************)
(* translate_csv and mark_missing on a three-column table                  *)
(***************************************************************************)

T_Ha == <<"H", "a">>
T_w == <<"{", "w", "}">>
K9 == <<"k", "9">>

CsvHeader == <<"key", "en", "cs">>

Row3(key, en, cs) ==
    [c \in Range(CsvHeader) |-> IF c = "key" THEN key ELSE IF c = "en" THEN en ELSE cs]

CsvRows ==
    { Row3(K1, T_Hi, Empty),                 \* a missing translation
      Row3(K2, T_Hi, <<" ">>),               \* a whitespace-only target cell
      Row3(K3, Empty, Empty),                \* no English text
      Row3(K4, T_w, T_Ho),                   \* translated
      Row3(K5, T_Hi, None),                  \* a short row
      Row3(Empty, T_Hi, Empty),              \* no key
      WithExtra(Row3(K1, T_Hi, Empty)) }     \* a cell too many

CsvFiles ==
    {File(CsvHeader, rows) : rows \in SeqsUpTo(CsvRows, MaxRows)}
    \cup { File(<<"key", "cs">>, <<>>), File(<<"key", "en">>, <<>>), EmptyFile }

\* The mappings handed to apply that no extract produced.
JsonFiles ==
    { (K1 :> T_w) @@ (K4 :> T_w),
      (K1 :> <<" ", "H", "a", " ">>) @@ (K3 :> T_Ho) @@ (K9 :> T_Ho),
      (K2 :> T_w) @@ (K4 :> T_Ha) @@ (K5 :> T_w) }

\* The texts a translator supplies.
SuppliedTexts == {T_Ha, <<" ">>}

CsvLangs == {"cs"}

InitCsv ==
    /\ csvFile \in CsvFiles
    /\ tmpFile = NoFile
    /\ bakFile = NoFile
    /\ request = NoFile
    /\ jsonFile \in {<<m>> : m \in JsonFiles}
    /\ constFile = <<>>
    /\ loaded = csvFile
    /\ Idle

NextCsv ==
    \/ \E l \in CsvLangs, o \in BOOLEAN : Extract(l, o)
    \/ \E m \in [DOMAIN jsonFile[1] -> SuppliedTexts] : Translate(m)
    \/ \E l \in CsvLangs, f \in BOOLEAN : ApplyStart(l, f)
    \/ ApplyBackup
    \/ ApplyLoop
    \/ ApplyReplace
    \/ MarkStart
    \/ MarkOpen
    \/ MarkRows
    \/ CheckCoverage

SpecCsv == InitCsv /\ [][NextCsv]_vars

(***************************************************************************)
(* Properties of translate_csv and mark_missing                            *)
(***************************************************************************)

\* An extract for a language, a text supplied for every extracted key, and
\* the apply for that language without --force, run to its end.
RoundTripDone ==
    /\ tool = "apply" /\ pc = "done" /\ exit = 0
    /\ ret = <<args.lang>>
    /\ ~args.force

\* C1 (as claimed): the round trip leaves no row with an empty cell in the
\* language column, whatever the row held and whatever text was supplied.
C1_RoundTripNoEmpty ==
    RoundTripDone =>
        \A i \in 1..Len(csvFile.rows) : csvFile.rows[i][args.lang] # Empty

\* C1 (amended): when every supplied text is non-blank, the round trip
\* leaves no empty cell of the language column among the rows that have a
\* key and a non-blank English cell, and a cell that was empty holds the
\* supplied text, trimmed.
C1_RoundTripFills ==
    (RoundTripDone /\ \A k \in DOMAIN jsonFile[1] : Strip(jsonFile[1][k]) # Empty)
        => /\ Len(csvFile.rows) = Len(readRows)
           /\ \A i \in 1..Len(readRows) :
                LET r == readRows[i] IN
                (~Falsy(RowKey(r)) /\ Strip(OrEmpty(Get(r, "en"))) # Empty)
                    => /\ csvFile.rows[i][args.lang] # Empty
                       /\ OrEmpty(Get(r, args.lang)) = Empty
                            => /\ RowKey(r) \in DOMAIN jsonFile[1]
                               /\ csvFile.rows[i][args.lang]
                                      = Strip(jsonFile[1][RowKey(r)])

\* C1 witness: a round trip that filled the empty cell of one row and left
\* the whitespace-only cell of another as it was.
C1_Witness ==
    /\ RoundTripDone
    /\ \A k \in DOMAIN jsonFile[1] : Strip(jsonFile[1][k]) # Empty
    /\ \E i, j \in 1..Len(readRows) :
          /\ OrEmpty(Get(readRows[i], args.lang)) = Empty
          /\ csvFile.rows[i][args.lang] = T_Ha
          /\ Get(readRows[j], args.lang) = <<" ">>
          /\ csvFile.rows[j][args.lang] = <<" ">>

\* C4 (as claimed): a run that has written the table file changed at least
\* one cell of the table it loaded.
C4_WriteOnlyOnChange ==
    opens > 0 => CellsOf(data) # CellsOf(readRows)

\* What a finished apply left, against what it read: which rows count as
\* addressed by the mapping, and which text goes into the cell.
ApplyContract(needsEnglish, trimmed) ==
    LET m == jsonFile[1]
        L == args.lang
        Addressed(r) ==
            /\ RowKey(r) \in DOMAIN m
            /\ needsEnglish => Strip(OrEmpty(Get(r, "en"))) # Empty
        Kept(r) == Addressed(r) /\ OrEmpty(Get(r, L)) # Empty /\ ~args.force
        Replaced(r) == Addressed(r) /\ ~Kept(r)
        Text(r) == IF trimmed THEN Strip(m[RowKey(r)]) ELSE m[RowKey(r)]
    IN /\ csvFile.header = loaded.header
       /\ Len(csvFile.rows) = Len(readRows)
       /\ \A i \in 1..Len(readRows) : \A c \in Range(csvFile.header) :
              csvFile.rows[i][c] =
                  IF c = L /\ Replaced(readRows[i])
                  THEN Text(readRows[i])
                  ELSE OrEmpty(Get(readRows[i], c))
       /\ counters.skipped = Cardinality({i \in 1..Len(readRows) : Kept(readRows[i])})
       /\ counters.updated = Cardinality({i \in 1..Len(readRows) : Replaced(readRows[i])})

\* C8 (as claimed): after apply, every row whose key is in the mapping has
\* its target cell kept and counted as skipped when it was non-empty and
\* force is off, and replaced by the supplied text and counted as updated
\* otherwise; every other cell is as it was read.
C8_ApplyPerKey ==
    (tool = "apply" /\ pc = "done" /\ exit = 0) => ApplyContract(FALSE, FALSE)

\* C8 (amended): the same for the rows whose key is in the mapping and
\* whose English cell is non-blank, the text written being the supplied
\* text without its leading and trailing whitespace; a row with a blank
\* English cell is left as read and not counted.
C8_ApplyPerKeyWithEnglish ==
    (tool = "apply" /\ pc = "done" /\ exit = 0) => ApplyContract(TRUE, TRUE)

\* C8 witness: an apply with --force that overwrote a translated cell.
C8_Witness ==
    /\ tool = "apply" /\ pc = "done" /\ exit = 0
    /\ args.force
    /\ counters.updated >= 1
    /\ \E i \in 1..Len(readRows) :
          /\ OrEmpty(Get(readRows[i], args.lang)) = T_Ho
          /\ csvFile.rows[i][args.lang] = T_Ha

(***************************************************************************)
(* Properties of the fixer: suspension and the header gate                 *)
(***************************************************************************)

\* A cell the batch fixer asks a human about: it needs a fix and is not an
\* MT: cell, which the fixer strips by itself.
HumanCell(r, lang) ==
    /\ needs_translation(GetD(r, lang, Empty), lang, r["en"])
    /\ _get_issue_type(GetD(r, lang, Empty), r["en"]) # "mt_prefix"

\* The cell (l2, i2) comes before (l, i) in the batch order: language by
\* language, row by row.
Before(l2, i2, l, i) == l2 < l \/ (l2 = l /\ i2 < i)

\* The request record is that of the first human cell of the rows read, and
\* the cells classified are those up to it.
RequestIsFirstHumanCell ==
    /\ Len(request) = 1
    /\ \E l \in 1..Len(BatchLangs), i \in 1..Len(readRows) :
          LET lang == BatchLangs[l]
              r == readRows[i]
          IN /\ HumanCell(r, lang)
             /\ \A l2 \in 1..Len(BatchLangs), i2 \in 1..Len(readRows) :
                    Before(l2, i2, l, i) => ~HumanCell(readRows[i2], BatchLangs[l2])
             /\ request[1].key = r["key"]
             /\ request[1].language = lang
             /\ request[1].language_name = LANGUAGE_INFO(lang).name
             /\ request[1].context = LANGUAGE_INFO(lang).context
             /\ request[1].english = r["en"]
             /\ request[1].prompt =
                    <<"TRANSLATION REQUEST", LANGUAGE_INFO(lang).name, lang,
                      r["key"], r["en"], LANGUAGE_INFO(lang).context>>
             /\ classified =
                    {<<i2, BatchLangs[l2]>> :
                        <<l2, i2>> \in {c \in (1..Len(BatchLangs)) \X (1..Len(readRows)) :
                                           ~Before(l, i, c[1], c[2])}}

\* A suspended batch run: status 2, nothing prompted, nothing written.
SuspendedQuietly ==
    /\ pc = "done" /\ exit = 2
    /\ accepted = <<>>
    /\ opens = 0 /\ lastWrite = <<>>
    /\ RequestIsFirstHumanCell

\* C11 (as claimed): a batch run that suspends has written the request of
\* the first human cell, processed no later cell, ended with status 2, and
\* the table file is as it was when the run started.
C11_SuspensionLeavesTable ==
    (tool = "batch" /\ outcome = "awaiting_input")
        => SuspendedQuietly /\ csvFile = loaded

\* C11 (amended): the same, the table file being the one the run read its
\* rows from: the file of the start, or the one the header recovery put in
\* its place; the fixer itself has not written it.
C11_SuspensionWritesNoTable ==
    (tool = "batch" /\ outcome = "awaiting_input")
        => /\ SuspendedQuietly
           /\ csvFile.rows = readRows
           /\ check_header_integrity(loaded) => csvFile = loaded

\* C11 witness: the re-run suspends again on the second row's cell, over
\* the request of the first run.
C11_Witness ==
    /\ tool = "batch" /\ outcome = "awaiting_input" /\ runs = 2
    /\ Len(readRows) = 2
    /\ request[1].key = K3
    /\ request[1].key = readRows[2]["key"]
    /\ data # readRows

\* C12: the fixer reads rows only from a table whose header is the
\* expected 21-column sequence; a run stopped at the header gate ends with
\* failure, has read, classified, changed and written nothing, and leaves
\* either the table of the start (the recovery failed) or the recovered
\* one, whose header is invalid too.
C12_HeaderGate ==
    /\ Len(EXPECTED_HEADER) = 21
    /\ (tool \in {"batch", "interactive"} /\ opens = 0
        /\ outcome \notin {"header_failed", "unknown_language"})
           => /\ csvFile.header = EXPECTED_HEADER
              /\ csvFile.rows = readRows
              /\ check_header_integrity(loaded) => csvFile = loaded
    /\ (tool \in {"batch", "interactive"} /\ outcome = "header_failed")
           => /\ pc = "done" /\ exit = 1
              /\ ~check_header_integrity(loaded)
              /\ csvFile.header # EXPECTED_HEADER
              /\ readRows = <<>> /\ data = <<>>
              /\ classified = {} /\ accepted = <<>>
              /\ opens = 0 /\ lastWrite = <<>>
    /\ (tool \in {"batch", "interactive"} /\ (readRows # <<>> \/ classified # {} \/ opens > 0))
           => \/ loaded.header = EXPECTED_HEADER
              \/ \E f \in CleanFiles : f.header = EXPECTED_HEADER /\ f.rows = readRows

\* C12 witness: the recovery put a table in place whose header is still
\* invalid, and the run stopped.
C12_Witness ==
    /\ tool = "interactive" /\ outcome = "header_failed"
    /\ csvFile # loaded
    /\ csvFile.rows # <<>>

(***************************************************************************)
(* The constants table: move_constants.py, move_platform_constants.py,     *)
(* clean_constants.py                                                      *)
(***************************************************************************)

\* The most scripts run in a row on the constants table.
MaxRuns == 3

\* A text that is only compared as a whole.
Txt(s) == <<s>>

\* move_constants.py: keys_to_move
keys_to_move ==
    << Txt("orText"), Txt("close"), Txt("originalPalette"), Txt("original"),
       Txt("originalSize") >>

\* move_platform_constants.py: keys_to_move
platform_keys_to_move ==
    << Txt("gameBoyRes"), Txt("megaDriveNtscH32"), Txt("megaDrivePalH32"),
       Txt("neoGeoCd"), Txt("megaDriveNtscH40"), Txt("amigaLowResPal"),
       Txt("amigaHiResPal"), Txt("msxZxSpectrum"), Txt("cpsArcade"),
       Txt("vgaAmiga") >>

\* move_platform_constants.py: english_values
english_values ==
    (Txt("gameBoyRes") :> Txt("Game Boy, Game Gear"))
    @@ (Txt("megaDriveNtscH32") :> Txt("Master System, Mega Drive NTSC H32, NES PAL, SNES"))
    @@ (Txt("megaDrivePalH32") :> Txt("Master System PAL, Mega Drive PAL H32, NES NTSC, Master System PAL"))
    @@ (Txt("neoGeoCd") :> Txt("Neo·Geo CD"))
    @@ (Txt("megaDriveNtscH40") :> Txt("Mega Drive NTSC H40, Neo·Geo"))
    @@ (Txt("amigaLowResPal") :> Txt("Commodore Amiga Low Res PAL"))
    @@ (Txt("amigaHiResPal") :> Txt("Commodore Amiga Hi-Res PAL"))
    @@ (Txt("msxZxSpectrum") :> Txt("MSX, Master System, ZX Spectrum"))
    @@ (Txt("cpsArcade") :> Txt("CPS1, CPS2, CPS3"))
    @@ (Txt("vgaAmiga") :> Txt("VGA, Commodore Amiga ECS"))

\* A row of the table file as csv.reader gives it: the cells of the line,
\* as many as the line has.
RECURSIVE CellsUpTo(_, _, _)
CellsUpTo(r, header, n) ==
    IF n = 0 THEN <<>>
    ELSE IF Get(r, header[n]) = None THEN CellsUpTo(r, header, n - 1)
    ELSE Append(CellsUpTo(r, header, n - 1), r[header[n]])

ListOf(r, header) ==
    CellsUpTo(r, header, Len(header))
        \o (IF RestKey \in DOMAIN r THEN r[RestKey] ELSE <<>>)

\* `for row in data_rows: if row[0] in keys_to_move`: the rows to move; a
\* line with no cell has no row[0].
RowsToMove(file, keys) ==
    SelectSeq([i \in 1..Len(file.rows) |-> ListOf(file.rows[i], file.header)],
              LAMBDA row : row[1] \in Range(keys))

RowsToKeep(file, keys) ==
    SelectSeq(file.rows, LAMBDA r : ListOf(r, file.header)[1] \notin Range(keys))

\* Reading the table raises IndexError: no header line (rows[0]), or a
\* data line without cells (row[0]).
NoRow0(file) ==
    \/ file.header = <<>>
    \/ \E i \in 1..Len(file.rows) : ListOf(file.rows[i], file.header) = <<>>

\* One script on the constants table ran: what it found there.
Ran(script) ==
    /\ Len(trail) < MaxRuns
    /\ trail' = Append(trail, [tool |-> script, before |-> constFile])
    /\ tool' = script

\* move_constants.py
MoveConstants ==
    /\ Ran("move_constants")
    /\ IF NoRow0(csvFile)
          \/ \E i \in 1..Len(RowsToMove(csvFile, keys_to_move)) :
                 Len(RowsToMove(csvFile, keys_to_move)[i]) < 2
       THEN /\ Finish(1, "crashed")           \* IndexError, nothing written
            /\ UNCHANGED <<csvFile, constFile>>
       ELSE /\ constFile' = constFile \o
                   [i \in 1..Len(RowsToMove(csvFile, keys_to_move)) |->
                       << RowsToMove(csvFile, keys_to_move)[i][1],
                          RowsToMove(csvFile, keys_to_move)[i][2] >>]
            /\ csvFile' = File(csvFile.header, RowsToKeep(csvFile, keys_to_move))
            /\ Finish(0, "moved")
    /\ UNCHANGED <<tmpFile, bakFile, request, jsonFile, args, data, idx, counters,
                   issues, runs, loaded, opens, classified, accepted, readRows,
                   lastWrite, ret>>

\* move_platform_constants.py
MovePlatformConstants ==
    /\ Ran("move_platform_constants")
    /\ IF NoRow0(csvFile)
       THEN /\ Finish(1, "crashed")
            /\ UNCHANGED <<csvFile, constFile>>
       ELSE /\ constFile' = constFile \o
                   [i \in 1..Len(platform_keys_to_move) |->
                       << platform_keys_to_move[i],
                          english_values[platform_keys_to_move[i]] >>]
            /\ csvFile' = File(csvFile.header,
                               RowsToKeep(csvFile, platform_keys_to_move))
            /\ Finish(0, "moved")
    /\ UNCHANGED <<tmpFile, bakFile, request, jsonFile, args, data, idx, counters,
                   issues, runs, loaded, opens, classified, accepted, readRows,
                   lastWrite, ret>>

\* unique_rows.append(row) for a row seen before too.
RECURSIVE DedupBlind(_, _, _)
DedupBlind(rows, seen, unique_rows) ==
    IF rows = <<>> THEN unique_rows
    ELSE DedupBlind(Tail(rows), seen \cup {Head(rows)}, Append(unique_rows, Head(rows)))

\* unique_rows.insert(0, row) in place of unique_rows.append(row).
RECURSIVE DedupReversed(_, _, _)
DedupReversed(rows, seen, unique_rows) ==
    IF rows = <<>> THEN unique_rows
    ELSE IF Head(rows) \in seen THEN DedupReversed(Tail(rows), seen, unique_rows)
    ELSE DedupReversed(Tail(rows), seen \cup {Head(rows)},
                       <<Head(rows)>> \o unique_rows)

\* clean_constants.py: the loop over the rows, with `seen` and
\* `unique_rows` as they stand.
RECURSIVE Dedup(_, _, _)
Dedup(rows, seen, unique_rows) ==
    IF rows = <<>> THEN unique_rows
    ELSE IF Head(rows) \in seen THEN Dedup(Tail(rows), seen, unique_rows)
    ELSE Dedup(Tail(rows), seen \cup {Head(rows)}, Append(unique_rows, Head(rows)))

\* clean_constants.py
CleanConstants ==
    /\ Ran("clean_constants")
    /\ constFile' = Dedup(constFile, {}, <<>>)
    /\ Finish(0, "cleaned")
    /\ UNCHANGED <<csvFile, tmpFile, bakFile, request, jsonFile, args, data, idx,
                   counters, issues, runs, loaded, opens, classified, accepted,
                   readRows, lastWrite, ret>>

\* The tables and constants tables the scripts start on.
ConstRows ==
    { Row3(Txt("orText"), Txt("or"), Txt("o")),
      Row3(Txt("k1"), Txt("Hi"), Txt("Ho")),
      Row3(Txt("gameBoyRes"), Txt("Game Boy, Game Gear"), Txt("Game Boy, Game Gear")),
      Row3(Txt("close"), None, None) }             \* a line with the key only

ConstTables ==
    {File(CsvHeader, rows) : rows \in SeqsUpTo(ConstRows, MaxRows)} \cup {EmptyFile}

ConstFiles ==
    { <<>>,
      << <<Txt("orText"), Txt("or")>> >>,
      << <<Txt("a"), Txt("b")>>, <<Txt("a"), Txt("b")>> >>,
      << <<Txt("a"), Txt("b")>>, <<Txt("c")>>, <<Txt("a"), Txt("b")>>, <<>>,
         <<Txt("a"), Txt("b"), Txt("")>>, <<Txt("c")>> >> }

InitConst ==
    /\ csvFile \in ConstTables
    /\ tmpFile = NoFile
    /\ bakFile = NoFile
    /\ request = NoFile
    /\ jsonFile = NoFile
    /\ constFile \in ConstFiles
    /\ loaded = csvFile
    /\ Idle

NextConst ==
    \/ MoveConstants
    \/ MovePlatformConstants
    \/ CleanConstants

SpecConst == InitConst /\ [][NextConst]_vars

(***************************************************************************)
(* Properties of the constants table                                       *)
(***************************************************************************)

NoDuplicates(rows) ==
    \A i, j \in 1..Len(rows) : rows[i] = rows[j] => i = j

\* The constants table before the first script ran.
InitialConstants == IF trail = <<>> THEN constFile ELSE trail[1].before

\* C13 (as claimed): key-migration runs on a constants table without
\* duplicates leave it without duplicates.
C13_NoDuplicatesAccumulate ==
    ( /\ NoDuplicates(InitialConstants)
      /\ \A k \in 1..Len(trail) :
             trail[k].tool \in {"move_constants", "move_platform_constants"} )
        => NoDuplicates(constFile)

\* The last two scripts run were both the duplicate removal.
CleanedTwice ==
    /\ Len(trail) >= 2
    /\ trail[Len(trail)].tool = "clean_constants"
    /\ trail[Len(trail) - 1].tool = "clean_constants"

\* C14: the second of two duplicate-removal passes leaves the file with
\* the rows, in the order, the first pass left.
C14_CleanIdempotent ==
    CleanedTwice => constFile = trail[Len(trail)].before

\* C14 witness: two passes in a row, the first of which removed rows.
C14_Witness ==
    /\ CleanedTwice
    /\ trail[Len(trail) - 1].before # trail[Len(trail)].before
    /\ Len(constFile) >= 2

\* The indices of the rows that have no equal row before them.
FirstOccurrences(rows) ==
    {i \in 1..Len(rows) : \A j \in 1..(i - 1) : rows[j] # rows[i]}

\* C15: the duplicate removal leaves the first occurrences of the rows it
\* read, in their order: no two rows left are equal, every row read is
\* left once, and no other row is.
C15_CleanKeepsFirstSeen ==
    (trail # <<>> /\ trail[Len(trail)].tool = "clean_constants")
        => LET inp == trail[Len(trail)].before
               F == FirstOccurrences(inp)
           IN /\ NoDuplicates(constFile)
              /\ Range(constFile) = Range(inp)
              /\ Len(constFile) = Cardinality(F)
              /\ \A i \in F :
                     constFile[Cardinality({j \in F : j <= i})] = inp[i]

\* C15 witness: a pass over a table with repeated rows, rows of other
\* lengths and an empty line among them.
C15_Witness ==
    /\ trail # <<>> /\ trail[Len(trail)].tool = "clean_constants"
    /\ Len(trail[Len(trail)].before) = 6
    /\ Len(constFile) = 4

(***************************************************************************)
(* Key migration: what a run moves                                         *)
(***************************************************************************)

\* The move list of a migration script.
MoveList(script) ==
    IF script = "move_constants" THEN keys_to_move ELSE platform_keys_to_move

\* The step is a completed run of a migration script.
MigrationRun ==
    /\ trail' # trail
    /\ tool' \in {"move_constants", "move_platform_constants"}
    /\ outcome' = "moved"

\* The (key, English value) pairs of the rows of the table whose key is in
\* the move list, in the order of the table.
RemovedPairs(file, keys) ==
    [i \in 1..Len(RowsToMove(file, keys)) |->
        << RowsToMove(file, keys)[i][1],
           IF Len(RowsToMove(file, keys)[i]) >= 2
           THEN RowsToMove(file, keys)[i][2] ELSE None >>]

\* How many times x occurs in the sequence.
Occurrences(seq, x) == Cardinality({i \in 1..Len(seq) : seq[i] = x})

\* The two sequences hold the same rows the same number of times.
SameRows(s, t) ==
    /\ Len(s) = Len(t)
    /\ \A x \in Range(s) \cup Range(t) : Occurrences(s, x) = Occurrences(t, x)

\* The rows a run appended to the constants table.
Appended == SubSeq(constFile', Len(constFile) + 1, Len(constFile'))

\* C21 (as claimed): a migration run leaves in the translation table exactly
\* the rows whose key is not in the move list, in their order and under the
\* same header, and appends to the constants table exactly one (key, English
\* value) row for each row it removed, so none for a key the translation
\* table did not hold.
C21_MigrationConservesRows ==
    [][ MigrationRun =>
          /\ csvFile'.header = csvFile.header
          /\ csvFile'.rows = RowsToKeep(csvFile, MoveList(tool'))
          /\ Len(constFile') >= Len(constFile)
          /\ SubSeq(constFile', 1, Len(constFile)) = constFile
          /\ SameRows(Appended, RemovedPairs(csvFile, MoveList(tool')))
      ]_vars

(***************************************************************************)
(* analyze_translations.py: the rows with identical translations           *)
(***************************************************************************)

\* The most cells a line of the table holds.
MaxCells == 4

\* row[1:-1]
translation_values(row) == SubSeq(row, 2, Len(row) - 1)

\* The loop body of identical_rows for one row: whether the row is
\* appended.
identical_row(row) ==
    IF Len(row) < 2 THEN FALSE
    ELSE LET tv == translation_values(row) IN
         /\ tv # <<>>
         /\ \A k \in 1..Len(tv) : Strip(tv[k]) = Strip(tv[1])
         /\ Strip(tv[1]) # Empty

AnalyzeCells == {Empty, <<" ">>, <<"a">>, <<" ", "a">>, <<"b">>}

InitAnalyze ==
    /\ csvFile = EmptyFile
    /\ tmpFile = NoFile
    /\ bakFile = NoFile
    /\ request = NoFile
    /\ jsonFile = NoFile
    /\ constFile = <<>>
    /\ loaded = csvFile
    /\ tool = "analyze"
    /\ pc = "call"
    /\ args \in SeqsUpTo(AnalyzeCells, MaxCells)
    /\ data = <<>>
    /\ idx = 0
    /\ counters = NoCounters
    /\ issues = <<>>
    /\ exit = -1
    /\ outcome = "running"
    /\ runs = 0
    /\ opens = 0
    /\ classified = {}
    /\ accepted = <<>>
    /\ readRows = <<>>
    /\ lastWrite = <<>>
    /\ ret = <<>>
    /\ trail = <<>>

\* The first loop of the script on the row.
AnalyzeRow ==
    /\ tool = "analyze" /\ pc = "call"
    /\ ret' = <<identical_row(args)>>
    /\ pc' = "done"
    /\ UNCHANGED <<constVars, diskVars, tool, args, data, idx, counters, issues,
                   exit, outcome, runs, loaded, opens, classified, accepted,
                   readRows, lastWrite>>

SpecAnalyze == InitAnalyze /\ [][AnalyzeRow]_vars

\* C16 (as claimed): a flagged row has all its compared cells non-empty and
\* equal, whitespace around them apart, and more than one of them; the
\* last cell of the row is not looked at.
C16_FlaggedRowsIdentical ==
    (pc = "done" /\ tool = "analyze" /\ ret[1])
        => LET tv == SubSeq(args, 2, Len(args) - 1) IN
           /\ \A k \in 1..Len(tv) : Strip(tv[k]) # Empty
           /\ \A k, m \in 1..Len(tv) : Strip(tv[k]) = Strip(tv[m])
           /\ Cardinality({k \in 1..Len(tv) : Strip(tv[k]) # Empty}) >= 2

(***************************************************************************)
(* Properties of the coverage check, extract, the backup and the           *)
(* placeholder check                                                       *)
(***************************************************************************)

\* The rows of the table whose cs cell is blank, in table order.
BlankRows(rows) ==
    SelectSeq([i \in 1..Len(rows) |-> i],
              LAMBDA i : Strip(OrEmpty(Get(rows[i], "cs"))) = Empty)

\* The counts of a coverage report, and the table left alone.
CoverageCounts ==
    /\ ret[1].total = Len(csvFile.rows)
    /\ ret[1].filled =
           Cardinality({i \in 1..Len(csvFile.rows) :
                           Strip(OrEmpty(Get(csvFile.rows[i], "cs"))) # Empty})
    /\ ret[1].missing = ret[1].total - ret[1].filled
    /\ Len(ret[1].listed) = Min({FirstN, ret[1].missing})
    /\ (\A i \in 1..Len(csvFile.rows) :
            Strip(OrEmpty(Get(csvFile.rows[i], "cs"))) # Empty) => ret[1].missing = 0
    /\ csvFile = loaded
    /\ opens = 0 /\ bakFile = NoFile /\ tmpFile = NoFile

\* C17 (as claimed): the report counts the rows, the filled and the
\* missing cells of the column, lists the keys of the rows with a blank
\* cell in table order, and the table file is as it was.
C17_CoverageListsKeys ==
    (tool = "coverage" /\ outcome = "reported")
        => /\ CoverageCounts
           /\ \A k \in 1..Len(ret[1].listed) :
                  ret[1].listed[k] = OrEmpty(Get(csvFile.rows[BlankRows(csvFile.rows)[k]], "key"))

\* C17 (amended): the same, a row without a key being listed under the
\* label row#N, N its position among the rows.
C17_CoverageListsKeysOrLabels ==
    (tool = "coverage" /\ outcome = "reported")
        => /\ CoverageCounts
           /\ \A k \in 1..Len(ret[1].listed) :
                  LET i == BlankRows(csvFile.rows)[k]
                      key == OrEmpty(Get(csvFile.rows[i], "key"))
                  IN ret[1].listed[k] =
                         IF key # Empty THEN key ELSE <<"r", "o", "w", "#">> \o Digits(i)

\* C17 witness: a report over two rows, the first filled, the second with a
\* whitespace-only cell.
C17_Witness ==
    /\ tool = "coverage" /\ outcome = "reported"
    /\ ret[1].total = 2 /\ ret[1].filled = 1
    /\ ret[1].listed = <<K2>>

\* C18 (as claimed): the mapping extract wrote has the English text of
\* every row with a key and an English text whose target cell is empty,
\* and, without --only-empty, of the rows whose target cell is filled too;
\* it has no row without English text, and the table file is as it was.
C18_ExtractRegardless ==
    (tool = "extract" /\ pc = "done" /\ exit = 0)
        => /\ csvFile = loaded /\ opens = 0
           /\ \A i \in 1..Len(csvFile.rows) :
                LET r == csvFile.rows[i]
                    en == Strip(OrEmpty(Get(r, "en")))
                    tgt == Strip(OrEmpty(Get(r, args.lang)))
                IN /\ (~Falsy(RowKey(r)) /\ en # Empty /\ (tgt = Empty \/ ~args.only_empty))
                        => (RowKey(r) \in DOMAIN jsonFile[1] /\ jsonFile[1][RowKey(r)] = en)
           /\ \A k \in DOMAIN jsonFile[1] :
                \E i \in 1..Len(csvFile.rows) :
                    /\ RowKey(csvFile.rows[i]) = k
                    /\ Strip(OrEmpty(Get(csvFile.rows[i], "en"))) = jsonFile[1][k]
                    /\ jsonFile[1][k] # Empty

\* Before a tool has replaced or truncated the table file, its backup
\* holds the table as the run found it.
BackedUp == bakFile = <<loaded>>

\* C19: apply and the mark_missing backfill have the backup of the whole
\* table before they begin to rewrite it, and an apply that stops on a
\* missing en or language column has made no backup and written nothing.
C19_BackupPrecedesWrite ==
    /\ (tool \in {"apply", "mark"}
        /\ (opens > 0 \/ tmpFile # NoFile \/ pc \in {"replace", "mark_open", "mark_rows"}))
           => BackedUp
    /\ (tool \in {"apply", "mark"} /\ pc \in {"replace", "mark_open"})
           => csvFile = loaded
    /\ (tool = "apply" /\ outcome \in {"no_en_column", "no_lang_column"})
           => /\ pc = "done" /\ exit = 2
              /\ bakFile = NoFile /\ tmpFile = NoFile
              /\ opens = 0 /\ csvFile = loaded

\* C19 witness: an apply has replaced the table file with other content
\* and the backup holds what was there.
C19_Witness ==
    /\ tool = "apply" /\ pc = "done" /\ opens = 1
    /\ csvFile # loaded
    /\ bakFile = <<loaded>>
    /\ loaded.rows # <<>>

\* The placeholder tokens of a text, each named by what stands between its
\* braces.
Tokens(text) == Range(BraceMatches(text))

\* C20: after apply, the issue counter is the number of rows it handled
\* (not skipped) whose supplied text has other placeholder tokens than the
\* English cell; those rows hold the supplied text all the same and are
\* counted as updated.
C20_ParityWarnOnly ==
    (tool = "apply" /\ pc = "done" /\ exit = 0)
        => LET m == jsonFile[1]
               Handled == {i \in 1..Len(readRows) :
                              /\ RowKey(readRows[i]) \in DOMAIN m
                              /\ Strip(OrEmpty(Get(readRows[i], "en"))) # Empty
                              /\ (OrEmpty(Get(readRows[i], args.lang)) = Empty \/ args.force)}
               Mismatch == {i \in Handled :
                               Tokens(Strip(OrEmpty(Get(readRows[i], "en"))))
                                   # Tokens(Strip(m[RowKey(readRows[i])]))}
           IN /\ counters.issues = Cardinality(Mismatch)
              /\ counters.updated = Cardinality(Handled)
              /\ \A i \in Handled :
                     /\ csvFile.rows[i][args.lang] = Strip(m[RowKey(readRows[i])])
                     /\ data[i][args.lang] = Strip(m[RowKey(readRows[i])])

\* C20 witness: one apply wrote a text with the placeholder of its English
\* cell and a text without, and counted one issue and two updates.
C20_Witness ==
    /\ tool = "apply" /\ pc = "done" /\ exit = 0
    /\ counters.issues = 1 /\ counters.updated = 2
    /\ \E i, j \in 1..Len(readRows) :
          /\ Get(readRows[i], "en") = T_w /\ csvFile.rows[i][args.lang] = T_w
          /\ Get(readRows[j], "en") = T_Hi /\ csvFile.rows[j][args.lang] = T_w

=============================================================================
